---- MODULE Spec2Model ----
(***************************************************************************)
(* A model of omni_archive: one Archive object at a time over one target   *)
(* of the filesystem, with the three backends (TarArchive, ZipArchive,     *)
(* DirectoryArchive), the lazily materialized codec handle, the Tar member *)
(* index, per-member write streams and the dispatcher.                     *)
(*                                                                         *)
(* Member paths are sequences of segments (pathlib.PurePosixPath); a raw   *)
(* member name of a container is a path together with a trailing-slash     *)
(* flag, as directory records are stored under "name/".                    *)
(***************************************************************************)
EXTENDS Integers, Sequences, FiniteSets, TLC

\* ------------------------------------------------------------------ bounds
\* Most records one container can hold before the writing operations stop.
MaxEntries == 2
\* Most per-member write streams open at the same time.
MaxStreams == 1

\* ------------------------------------------------------------ value domains
Paths == { <<"d">>, <<"d", "f">> }
Payloads == { "", "foo" }
\* archive_fn as stem and extension: "archive.tar", "archive.zip", "archive"
Targets == { [stem |-> "archive", ext |-> ".tar"],
             [stem |-> "archive", ext |-> ".zip"],
             [stem |-> "archive", ext |-> ""] }
ArchiveModes == { "r", "w" }
\* the shapes of an open call: a mode, and whether encoding arguments come
\* with it (they make a difference with a binary mode only)
OpenCalls == { <<"r", FALSE>>, <<"rb", TRUE>>, <<"w", FALSE>>, <<"wb", FALSE>>,
               <<"wb", TRUE>>, <<"x", FALSE>> }
WriteModes == { "w", "wb" }

NoWrite == "<no write>"
Stale == "<stale>"
\* extractfile() returned None
NoStream == "<None>"

\* the exceptions behind the error kinds of the member operations
MemberNotFound == "FileNotFoundError"
NoData == "IOError"
ReadOnlyViolation == "ValueError"
\* the exception of the dispatcher
UnknownFormat == "UnknownArchiveError"

\* pathlib: the parent of a one-segment path is "." (the empty sequence)
Parent(p) == IF Len(p) = 0 THEN p ELSE SubSeq(p, 1, Len(p) - 1)

\* the proper ancestors of a path, "." excluded
Ancestors(p) == { SubSeq(p, 1, k) : k \in 1..(Len(p) - 1) }

\* str(member_fn): the raw name of a path, without a trailing slash
FileName(p) == [p |-> p, slash |-> FALSE]
\* member_fn + "/"
DirName(p) == [p |-> p, slash |-> TRUE]

\* mode[0]
Mode0(m) == IF m \in {"r", "rb"} THEN "r" ELSE IF m \in {"w", "wb"} THEN "w" ELSE "x"
\* "b" in mode
IsBinary(m) == m \in {"rb", "wb"}

\* ---------------------------------------------------------- the filesystem
EmptyTree == [p \in Paths |-> [type |-> "none", data |-> ""]]

Absent == [kind |-> "absent", fmt |-> "none", final |-> FALSE,
           entries |-> << >>, tree |-> EmptyTree]
EmptyDir == [kind |-> "dir", fmt |-> "none", final |-> FALSE,
             entries |-> << >>, tree |-> EmptyTree]
RawFile == [kind |-> "file", fmt |-> "raw", final |-> TRUE,
            entries |-> << >>, tree |-> EmptyTree]
\* a file that is an empty tar container with an empty zip container
\* appended: both codecs recognize it
Polyglot == [kind |-> "file", fmt |-> "tar+zip", final |-> TRUE,
             entries |-> << >>, tree |-> EmptyTree]
\* the container file right after the codec opened it in mode "w"
NewContainer(fmt) == [kind |-> "file", fmt |-> fmt, final |-> FALSE,
                      entries |-> << >>, tree |-> EmptyTree]

FileRec(name, data) == [name |-> name, type |-> "file", data |-> data]
DirRec(name) == [name |-> name, type |-> "dir", data |-> ""]

\* the last record of a list stored under a raw name (0 when there is none)
LastIndex(list, name) ==
  LET S == { i \in 1..Len(list) : list[i].name = name }
  IN IF S = {} THEN 0 ELSE CHOOSE i \in S : \A j \in S : j <= i

Names(list) == { list[i].name : i \in 1..Len(list) }

\* --------------------------------------------------------------- variables
VARIABLES
  target,     \* archive_fn, the one filesystem location of this behaviour
  fs,         \* the filesystem node at target
  cls,        \* class of the live Archive object, "None" when there is none
  mode,       \* Archive.mode
  handle,     \* the cached _tarfile / _zipfile of the Archive
  index,      \* TarArchive._members, the cached name -> TarInfo mapping
  streams,    \* the open per-member write streams
  res,        \* outcome of the last call
  written,    \* per member: payload of its last returned write
  prev,       \* the previous Archive object of this target, as it was let go
  life,       \* "fresh" until the first call, "closed" once close() was called
  opened      \* the target as a read-mode Archive found it when it was made

vars == << target, fs, cls, mode, handle, index, streams, res, written, prev, life,
          opened >>

Unset == [state |-> "unset", list |-> << >>, complete |-> FALSE]
EmptyMap == [n \in {} |-> DirRec(FileName(<< >>))]
NoIndex == [set |-> FALSE, map |-> EmptyMap]
NoPrev == [cls |-> "None", mode |-> "r", state |-> "unset", life |-> "fresh"]
AllNoWrite == [p \in Paths |-> NoWrite]

\* how is the first letter of the mode asked for, val a payload read, flag
\* tells that a stream was returned
Result(op, status) ==
  [op |-> op, status |-> status, how |-> "", val |-> "", flag |-> FALSE]
Ok(op) == Result(op, "ok")

\* What a call works on and leaves behind: the handle, the filesystem node,
\* the member index and the error it raised ("ok" when none).
\* val is the payload a read returned, strm tells that a write stream was
\* handed out.
Ctx(h, node, idx, err) ==
  [h |-> h, fs |-> node, idx |-> idx, err |-> err, val |-> "", strm |-> FALSE]
Fail(c, err) == [c EXCEPT !.err = err]

\* ------------------------------------------------------- the tarfile codec
\* tarfile.is_tarfile: an unfinished container with a first header passes
is_tarfile(node) ==
  node.fmt \in { "tar", "tar+zip" } /\ (node.final \/ Len(node.entries) > 0)

\* TarFile.getmembers() of a container opened for reading: the name of a
\* directory record comes back without its trailing slash
TarLoad(entries) ==
  [i \in 1..Len(entries) |->
     IF entries[i].type = "dir"
     THEN [entries[i] EXCEPT !.name = FileName(entries[i].name.p)]
     ELSE entries[i]]

\* tarfile.open(self.archive_fn, self.mode)
TarOpen(c, md) ==
  IF md = "r"
  THEN IF c.fs.kind = "absent" THEN Fail(c, "FileNotFoundError")
       ELSE IF c.fs.kind = "dir" THEN Fail(c, "IsADirectoryError")
       ELSE IF ~is_tarfile(c.fs) THEN Fail(c, "ReadError")
       ELSE [c EXCEPT !.h = [state |-> "open", list |-> TarLoad(c.fs.entries),
                             complete |-> FALSE]]
  ELSE IF c.fs.kind = "dir" THEN Fail(c, "IsADirectoryError")
       ELSE [c EXCEPT !.h = [state |-> "open", list |-> << >>, complete |-> FALSE],
                      !.fs = NewContainer("tar")]

\* TarArchive._tarfile, a cached property: opened on first access, then kept
_tarfile(c, md) == IF c.h.state # "unset" THEN c ELSE TarOpen(c, md)

\* addfile without the check of the state of the TarFile
addfileUnchecked(c, md, rec) ==
  [c EXCEPT !.h.list = Append(@, rec), !.fs.entries = Append(@, rec)]

\* TarFile.addfile(tar_info, fileobj)
addfile(c, md, rec) ==
  IF c.h.state = "closed" \/ md = "r" THEN Fail(c, "OSError")
  ELSE [c EXCEPT !.h.list = Append(@, rec), !.fs.entries = Append(@, rec)]

\* IndexOf with the first record of a name winning
IndexOfFirst(list) ==
  [n \in Names(list) |->
     list[CHOOSE i \in 1..Len(list) :
            list[i].name = n /\ \A j \in 1..(i - 1) : list[j].name # n]]

\* {tar_info.name: tar_info for tar_info in getmembers()}: the last record
\* of a name wins
IndexOf(list) == [n \in Names(list) |-> list[LastIndex(list, n)]]

\* TarArchive._members, a cached property over self._tarfile.getmembers()
_members(c, md) ==
  IF c.idx.set THEN c
  ELSE LET c1 == _tarfile(c, md)
       IN IF c1.err # "ok" THEN c1
          ELSE IF c1.h.state = "closed" THEN Fail(c1, "OSError")
          ELSE [c1 EXCEPT !.idx = [set |-> TRUE, map |-> IndexOf(c1.h.list)]]

\* IndexPut forgotten: the index stays as it was
IndexKeep(map, rec) == map

\* self._members[name] = tar_info
IndexPut(map, rec) ==
  [n \in (DOMAIN map) \cup {rec.name} |-> IF n = rec.name THEN rec ELSE map[n]]

\* ------------------------------------------------------- the zipfile codec
is_zipfile(node) == node.fmt \in { "zip", "tar+zip" } /\ node.final

\* zipfile.ZipFile(self.archive_fn, self.mode)
ZipOpen(c, md) ==
  IF md = "r"
  THEN IF c.fs.kind = "absent" THEN Fail(c, "FileNotFoundError")
       ELSE IF c.fs.kind = "dir" THEN Fail(c, "IsADirectoryError")
       ELSE IF ~is_zipfile(c.fs) THEN Fail(c, "BadZipFile")
       ELSE [c EXCEPT !.h = [state |-> "open", list |-> c.fs.entries,
                             complete |-> FALSE]]
  ELSE IF c.fs.kind = "dir" THEN Fail(c, "IsADirectoryError")
       ELSE [c EXCEPT !.h = [state |-> "open", list |-> << >>, complete |-> FALSE],
                      !.fs = NewContainer("zip")]

\* ZipArchive._zipfile, a cached property
_zipfile(c, md) == IF c.h.state # "unset" THEN c ELSE ZipOpen(c, md)

\* zipfile.Path(self._zipfile, ...) turns the ZipFile into a CompleteDirs,
\* whose namelist() also reports the implied directories
ZipPath(c, md) ==
  LET c1 == _zipfile(c, md)
  IN IF c1.err # "ok" THEN c1 ELSE [c1 EXCEPT !.h.complete = TRUE]

ImpliedDirs(list) ==
  { DirName(a) : a \in UNION { Ancestors(n.p) : n \in Names(list) } } \ Names(list)

\* ZipFile.namelist() as a set of raw names
namelist(h) == Names(h.list) \cup (IF h.complete THEN ImpliedDirs(h.list) ELSE {})

\* ZipFile.writestr / _ZipWriteFile.close: one more record in the container
ZipAdd(c, rec) == [c EXCEPT !.h.list = Append(@, rec), !.fs.entries = Append(@, rec)]

\* ZipFile.writestr(member_fn, data): fails on a closed archive, while a
\* write handle is open, and on an archive opened for reading
writestr(c, md, writing, rec) ==
  IF c.h.state = "closed" \/ writing \/ md = "r" THEN Fail(c, "ValueError")
  ELSE ZipAdd(c, rec)

\* ------------------------------------------------ the directory filesystem
\* Path.mkdir(parents=True, exist_ok=True) on the parent of a member
MkParents(c, m) ==
  IF \E a \in Ancestors(m) : c.fs.tree[a].type = "file"
  THEN Fail(c, "FileExistsError")
  ELSE [c EXCEPT !.fs.tree = [q \in Paths |->
          IF q \in Ancestors(m) THEN [type |-> "dir", data |-> ""] ELSE @[q]]]

\* the parent of a member is an existing directory of the tree
ParentIsDir(tree, m) == \A a \in Ancestors(m) : tree[a].type = "dir"

\* Path.open(mode, *args, **kwargs) on a member of a directory target
PathOpen(c, m, om, args) ==
  IF IsBinary(om) /\ args THEN Fail(c, "ValueError")
  ELSE IF \E a \in Ancestors(m) : c.fs.tree[a].type = "file"
  THEN Fail(c, "NotADirectoryError")
  ELSE IF ~ParentIsDir(c.fs.tree, m) THEN Fail(c, "FileNotFoundError")
  ELSE IF Mode0(om) = "r"
  THEN IF c.fs.tree[m].type = "none" THEN Fail(c, "FileNotFoundError")
       ELSE IF c.fs.tree[m].type = "dir" THEN Fail(c, "IsADirectoryError")
       ELSE [c EXCEPT !.val = c.fs.tree[m].data]
  ELSE IF Mode0(om) = "x" /\ c.fs.tree[m].type # "none" THEN Fail(c, "FileExistsError")
  ELSE IF c.fs.tree[m].type = "dir" THEN Fail(c, "IsADirectoryError")
  ELSE [c EXCEPT !.fs.tree[m] = [type |-> "file", data |-> ""], !.strm = TRUE]

\* --------------------------------------------------------- the dispatcher
\* Subclasses with the directory backend imported first
SubclassesDirFirst == << "DirectoryArchive", "TarArchive", "ZipArchive" >>

\* Archive.__subclasses__(), in the order the package imports the backends
Subclasses == << "TarArchive", "ZipArchive", "DirectoryArchive" >>

_extensions(k) ==
  IF k = "TarArchive"
  THEN { ".tar", ".tar.bz2", ".tb2", ".tbz", ".tbz2", ".tz2", ".tar.gz", ".taz",
         ".tgz", ".tar.lzma", ".tlz" }
  ELSE IF k = "ZipArchive" THEN { ".zip" }
  ELSE { "" }

\* archive_fn.name.endswith(ext), for a name made of a stem and an extension
EndsWith(fn, ext) == ext = "" \/ ext = fn.ext

\* is_readable with the zip backend probing for a tar container
is_readable_tar_probe(k, node) ==
  IF k = "TarArchive" THEN node.kind = "file" /\ is_tarfile(node)
  ELSE IF k = "ZipArchive" THEN node.kind = "file" /\ is_tarfile(node)
  ELSE node.kind = "dir"

is_readable(k, node) ==
  IF k = "TarArchive" THEN node.kind = "file" /\ is_tarfile(node)
  ELSE IF k = "ZipArchive" THEN node.kind = "file" /\ is_zipfile(node)
  ELSE node.kind = "dir"

\* the candidates of Archive.__new__, in probing order
Matches(fn, node, md) ==
  { i \in 1..Len(Subclasses) :
      IF md = "r" THEN is_readable(Subclasses[i], node)
      ELSE \E ext \in _extensions(Subclasses[i]) : EndsWith(fn, ext) }

\* Select with the last subclass that matches
SelectLast(fn, node, md) ==
  LET S == Matches(fn, node, md)
  IN IF S = {} THEN "None" ELSE Subclasses[CHOOSE i \in S : \A j \in S : j <= i]

\* Archive.__new__: the first subclass that matches, "None" when none does
Select(fn, node, md) ==
  LET S == Matches(fn, node, md)
  IN IF S = {} THEN "None" ELSE Subclasses[CHOOSE i \in S : \A j \in S : i <= j]

\* ------------------------------------------------------------ write_member
\* TarArchive.write_member
TarWriteMember(c, md, m, data) ==
  LET rec == FileRec(FileName(m), data)
      c1 == _tarfile(c, md)
      c2 == addfile(c1, md, rec)
      c3 == _members(c2, md)
  IN IF c1.err # "ok" THEN c1
     ELSE IF c2.err # "ok" THEN c2
     ELSE IF c3.err # "ok" THEN c3
     ELSE [c3 EXCEPT !.idx.map = IndexPut(@, rec)]

\* ZipArchive.write_member
ZipWriteMember(c, md, writing, m, data) ==
  LET c1 == _zipfile(c, md)
  IN IF c1.err # "ok" THEN c1
     ELSE writestr(c1, md, writing, FileRec(FileName(m), data))

\* DirectoryArchive.open_at without its check of the archive mode
DirOpenAtUnchecked(c, md, m, om, args) ==
  LET c1 == IF md # "r" THEN MkParents(c, m) ELSE c
  IN IF c1.err # "ok" THEN c1 ELSE PathOpen(c1, m, om, args)

\* DirectoryArchive.open_at
DirOpenAt(c, md, m, om, args) ==
  IF Mode0(om) # "r" /\ md = "r" THEN Fail(c, ReadOnlyViolation)
  ELSE LET c1 == IF md # "r" THEN MkParents(c, m) ELSE c
       IN IF c1.err # "ok" THEN c1 ELSE PathOpen(c1, m, om, args)

\* DirectoryArchive.write_member: bytes written through a text stream raise
\* TypeError after the file was opened, and truncated
DirWriteMember(c, md, m, data, wm) ==
  LET c1 == DirOpenAt(c, md, m, wm, FALSE)
  IN IF c1.err # "ok" THEN c1
     ELSE IF ~IsBinary(wm) THEN [Fail(c1, "TypeError") EXCEPT !.strm = FALSE]
     ELSE [c1 EXCEPT !.fs.tree[m].data = data, !.strm = FALSE]

write_member(c, k, md, writing, m, data, wm) ==
  IF k = "TarArchive" THEN TarWriteMember(c, md, m, data)
  ELSE IF k = "ZipArchive" THEN ZipWriteMember(c, md, writing, m, data)
  ELSE DirWriteMember(c, md, m, data, wm)

\* ---------------------------------------------------------------- open_at
\* TarFile.extractfile(tar_info): None for a record that is no regular file
extractfile(c, md, rec) ==
  IF c.h.state = "closed" \/ md # "r" THEN Fail(c, "OSError")
  ELSE IF rec.type # "file" THEN [c EXCEPT !.val = NoStream]
  ELSE [c EXCEPT !.val = rec.data]

\* TarStream with the member entered in the index as soon as it is opened
TarStreamIndexed(c, md, m, om) ==
  IF Mode0(om) = "r"
  THEN LET c1 == _members(c, md)
       IN IF c1.err # "ok" THEN c1
          ELSE IF FileName(m) \notin DOMAIN c1.idx.map THEN Fail(c1, MemberNotFound)
          ELSE LET c2 == extractfile(c1, md, c1.idx.map[FileName(m)])
               IN IF c2.err = "ok" /\ c2.val = NoStream
                  THEN [Fail(c2, NoData) EXCEPT !.val = ""]
                  ELSE c2
  ELSE IF Mode0(om) = "w"
  THEN IF md = "r" THEN Fail(c, ReadOnlyViolation)
       ELSE LET c3 == _members(c, md)
            IN IF c3.err # "ok" THEN c3
               ELSE [c3 EXCEPT !.idx.map = IndexPut(@, FileRec(FileName(m), "")),
                               !.strm = TRUE]
  ELSE Fail(c, "ValueError")

\* TarArchive.open_at, up to the stream it opens
TarStream(c, md, m, om) ==
  IF Mode0(om) = "r"
  THEN LET c1 == _members(c, md)
       IN IF c1.err # "ok" THEN c1
          ELSE IF FileName(m) \notin DOMAIN c1.idx.map THEN Fail(c1, MemberNotFound)
          ELSE LET c2 == extractfile(c1, md, c1.idx.map[FileName(m)])
               IN IF c2.err = "ok" /\ c2.val = NoStream
                  THEN [Fail(c2, NoData) EXCEPT !.val = ""]
                  ELSE c2
  ELSE IF Mode0(om) = "w"
  THEN IF md = "r" THEN Fail(c, ReadOnlyViolation) ELSE [c EXCEPT !.strm = TRUE]
  ELSE Fail(c, "ValueError")

\* TarArchive.open_at: encoding arguments with a binary mode close the stream
\* and raise; closing a _TarIO commits what it holds
TarOpenAt(c, md, m, om, args) ==
  LET c1 == TarStream(c, md, m, om)
  IN IF c1.err # "ok" THEN c1
     ELSE IF IsBinary(om) /\ args
     THEN IF c1.strm
          THEN LET c2 == TarWriteMember([c1 EXCEPT !.strm = FALSE], md, m, "")
               IN IF c2.err # "ok" THEN c2 ELSE Fail(c2, "ValueError")
          ELSE [Fail(c1, "ValueError") EXCEPT !.val = ""]
     ELSE c1

\* ZipFile.open(member, mode[0])
ZipStream(c, md, writing, m, om) ==
  IF Mode0(om) = "x" \/ c.h.state = "closed" THEN Fail(c, "ValueError")
  ELSE IF Mode0(om) = "w"
  THEN IF writing \/ md = "r" THEN Fail(c, "ValueError") ELSE [c EXCEPT !.strm = TRUE]
  ELSE IF FileName(m) \notin Names(c.h.list) THEN Fail(c, MemberNotFound)
  ELSE IF writing THEN Fail(c, "ValueError")
  ELSE [c EXCEPT !.val = c.h.list[LastIndex(c.h.list, FileName(m))].data]

\* ZipArchive.open_at
ZipOpenAt(c, md, writing, m, om, args) ==
  LET c0 == _zipfile(c, md)
      c1 == ZipStream(c0, md, writing, m, om)
  IN IF c0.err # "ok" THEN c0
     ELSE IF c1.err # "ok" THEN c1
     ELSE IF IsBinary(om) /\ args
     THEN IF c1.strm
          THEN [Fail(ZipAdd(c1, FileRec(FileName(m), "")), "ValueError") EXCEPT !.strm = FALSE]
          ELSE [Fail(c1, "ValueError") EXCEPT !.val = ""]
     ELSE c1

open_at(c, k, md, writing, m, om, args) ==
  IF k = "TarArchive" THEN TarOpenAt(c, md, m, om, args)
  ELSE IF k = "ZipArchive" THEN ZipOpenAt(c, md, writing, m, om, args)
  ELSE DirOpenAt(c, md, m, om, args)

\* -------------------------------------------------------- mkdir_at, touch_at
\* TarArchive.mkdir_at
TarMkdirAt(c, md, m) ==
  LET rec == DirRec(DirName(m))
      c1 == _tarfile(c, md)
      c2 == addfile(c1, md, rec)
      c3 == _members(c2, md)
  IN IF c1.err # "ok" THEN c1
     ELSE IF c2.err # "ok" THEN c2
     ELSE IF c3.err # "ok" THEN c3
     ELSE [c3 EXCEPT !.idx.map = IndexPut(@, rec)]

\* ZipFile.mkdir(name)
ZipFileMkdir(c, md, rec) ==
  IF c.h.state = "closed" THEN Fail(c, "AttributeError")
  ELSE IF md = "r" THEN Fail(c, "ValueError")
  ELSE ZipAdd(c, rec)

\* ZipArchive.mkdir_at
ZipMkdirAt(c, md, m, exist_ok) ==
  LET c1 == ZipPath(c, md)
  IN IF c1.err # "ok" THEN c1
     ELSE IF FileName(m) \in namelist(c1.h) THEN Fail(c1, "FileExistsError")
     ELSE IF DirName(m) \in namelist(c1.h)
     THEN IF exist_ok THEN c1 ELSE Fail(c1, "FileExistsError")
     ELSE ZipFileMkdir(c1, md, DirRec(DirName(m)))

\* DirectoryArchive.mkdir_at: Path.mkdir(exist_ok=...)
DirMkdirAt(c, m, exist_ok) ==
  IF \E a \in Ancestors(m) : c.fs.tree[a].type = "file" THEN Fail(c, "NotADirectoryError")
  ELSE IF ~ParentIsDir(c.fs.tree, m) THEN Fail(c, "FileNotFoundError")
  ELSE IF c.fs.tree[m].type = "dir" /\ exist_ok THEN c
  ELSE IF c.fs.tree[m].type # "none" THEN Fail(c, "FileExistsError")
  ELSE [c EXCEPT !.fs.tree[m] = [type |-> "dir", data |-> ""]]

mkdir_at(c, k, md, m, exist_ok) ==
  IF k = "TarArchive" THEN TarMkdirAt(c, md, m)
  ELSE IF k = "ZipArchive" THEN ZipMkdirAt(c, md, m, exist_ok)
  ELSE DirMkdirAt(c, m, exist_ok)

\* DirectoryArchive.touch_at: Path.touch()
DirTouchAt(c, m) ==
  IF \E a \in Ancestors(m) : c.fs.tree[a].type = "file" THEN Fail(c, "NotADirectoryError")
  ELSE IF ~ParentIsDir(c.fs.tree, m) THEN Fail(c, "FileNotFoundError")
  ELSE IF c.fs.tree[m].type # "none" THEN c
  ELSE [c EXCEPT !.fs.tree[m] = [type |-> "file", data |-> ""]]

touch_at(c, k, md, writing, m) ==
  IF k = "TarArchive" THEN TarWriteMember(c, md, m, "")
  ELSE IF k = "ZipArchive" THEN ZipWriteMember(c, md, writing, m, "")
  ELSE DirTouchAt(c, m)

\* ---------------------------------------------------------------- queries
\* the paths members() yields, on a handle and index already materialized
members(c, k) ==
  IF k = "TarArchive" THEN { n.p : n \in DOMAIN c.idx.map }
  ELSE IF k = "ZipArchive" THEN { n.p : n \in namelist(c.h) }
  ELSE { q \in Paths : c.fs.tree[q].type # "none" }

\* how many times members() yields path m: once per key of the tar index,
\* once per entry of the zip namelist, once per file or directory of the tree
MembersYield(c, k, m) ==
  IF k = "TarArchive" THEN Cardinality({ n \in DOMAIN c.idx.map : n.p = m })
  ELSE IF k = "ZipArchive"
  THEN Cardinality({ i \in 1..Len(c.h.list) : c.h.list[i].name.p = m })
       + (IF c.h.complete /\ DirName(m) \in ImpliedDirs(c.h.list) THEN 1 ELSE 0)
  ELSE IF c.fs.tree[m].type # "none" THEN 1 ELSE 0

\* what a query has to materialize first
Ready(c, k, md) ==
  IF k = "TarArchive" THEN _members(c, md)
  ELSE IF k = "ZipArchive" THEN _zipfile(c, md)
  ELSE c

\* Archive.is_dir_at: some member has member_fn as its parent
SynthIsDir(c, k, m) == \E q \in members(c, k) : Parent(q) = m

exists_at(c, k, m) ==
  IF k = "TarArchive" THEN FileName(m) \in DOMAIN c.idx.map
  ELSE IF k = "ZipArchive" THEN FileName(m) \in namelist(c.h)
  ELSE c.fs.tree[m].type # "none"

is_file_at(c, k, m) ==
  IF k = "TarArchive"
  THEN FileName(m) \in DOMAIN c.idx.map /\ c.idx.map[FileName(m)].type = "file"
  ELSE IF k = "ZipArchive" THEN FileName(m) \in namelist(c.h)
  ELSE c.fs.tree[m].type = "file"

is_dir_at(c, k, m) ==
  IF k = "TarArchive"
  THEN \/ FileName(m) \in DOMAIN c.idx.map /\ c.idx.map[FileName(m)].type = "dir"
       \/ SynthIsDir(c, k, m)
  ELSE IF k = "ZipArchive"
  THEN IF FileName(m) \in namelist(c.h) THEN FALSE
       ELSE IF DirName(m) \in namelist(c.h) THEN TRUE
       ELSE SynthIsDir(c, k, m)
  ELSE c.fs.tree[m].type = "dir"

\* a pattern is a sequence of segments, "*" standing for any one segment
Patterns == Paths \cup { <<"*">>, <<"d", "*">> }

fnmatch2(p, pat) ==
  Len(p) = Len(pat) /\ \A i \in 1..Len(p) : pat[i] = "*" \/ pat[i] = p[i]

glob(c, k, pat) == { q \in members(c, k) : fnmatch2(q, pat) }

iterdir_at(c, k, at) == { q \in members(c, k) : Parent(q) = at }

\* the queries of a path: what each materializes, and its answer
Prepare(c, k, md, q) ==
  IF k = "ZipArchive" /\ q \in { "exists_at", "is_file_at", "is_dir_at" }
  THEN ZipPath(c, md)
  ELSE Ready(c, k, md)

Answer(c, k, q, m) ==
  IF q = "exists_at" THEN exists_at(c, k, m)
  ELSE IF q = "is_file_at" THEN is_file_at(c, k, m)
  ELSE is_dir_at(c, k, m)

Listing(c, k, q, pat) ==
  IF q = "members" THEN members(c, k)
  ELSE IF q = "glob" THEN glob(c, k, pat)
  ELSE iterdir_at(c, k, pat)

\* ------------------------------------------------- the Archive as a path
\* the relative path of the root, pathlib's "."
Root == << >>

\* exists() answered from what is at the target
exists_on_disk(c) == c.fs.kind # "absent"

\* Archive.exists, is_file, is_dir: answered without a look at the target
exists(c) == TRUE
is_file(c) == FALSE
is_dir(c) == TRUE

\* Archive.name, stem, suffix
name(c) == ""
stem(c) == ""
suffix(c) == ""

\* Archive.parent: the Archive itself
parent(p) == p

\* the Virtual Paths looked at: the root, the member paths, and a path that
\* is named "*"
VirtualPaths == { Root } \cup Paths \cup { << "*" >> }

\* _ArchivePath.glob(pattern): the pattern is joined to the path as it is, and
\* the whole is the pattern of Archive.glob
PathGlob(c, k, d, pattern) == glob(c, k, d \o pattern)

\* a constructor of _ArchivePath that lists the members of its Archive
ArchivePathListing(c, k, md, p) == Ready(c, k, md)

\* _ArchivePath(archive, path): keeps the two references, and what the call
\* leaves behind is what it found
ArchivePath(c, k, md, p) == c

\* _ArchivePath.__truediv__: self._path / key
Join(p, key) == p \o key

\* _ArchivePath.name: the last segment of the path
PathName(p) == IF Len(p) = 0 THEN "" ELSE p[Len(p)]

\* _ArchivePath.suffix, _ArchivePath.stem: no segment looked at holds a dot
PathSuffix(p) == ""
PathStem(p) == PathName(p)

\* the order of the segments as strings: "*" < "d" < "f"
SegRank(seg) == IF seg = "*" THEN 1 ELSE IF seg = "d" THEN 2 ELSE 3

\* _ArchivePath.__lt__ within one Archive: the paths compare segment by
\* segment, a proper prefix coming first
RECURSIVE PathLt(_, _)
PathLt(p, q) ==
  IF Len(q) = 0 THEN FALSE
  ELSE IF Len(p) = 0 THEN TRUE
  ELSE IF p[1] # q[1] THEN SegRank(p[1]) < SegRank(q[1])
  ELSE PathLt(Tail(p), Tail(q))

\* ------------------------------------------------------------------ close
\* TarFile.close / ZipFile.close: finish the container of a write session
Finish(c, md) ==
  [c EXCEPT !.h.state = "closed",
            !.fs.final = IF md = "w" /\ c.h.state = "open" THEN TRUE ELSE @]

\* DropsHandle of a close() that keeps the closed handle cached
KeepsHandle(md) == FALSE

\* mode in ("ra"): a substring test, true of "r"
DropsHandle(md) == md \in { "r", "a", "ra" }

\* TarArchive.close
TarClose(c, md) ==
  IF c.h.state = "unset" THEN c
  ELSE IF DropsHandle(md) THEN [Finish(c, md) EXCEPT !.h = Unset, !.idx = NoIndex]
  ELSE Finish(c, md)

\* ZipArchive.close: ZipFile.close refuses while a write handle is open
ZipClose(c, md, writing) ==
  IF c.h.state = "unset" THEN c
  ELSE IF c.h.state = "open" /\ writing THEN Fail(c, "ValueError")
  ELSE IF DropsHandle(md) THEN [Finish(c, md) EXCEPT !.h = Unset]
  ELSE Finish(c, md)

\* DirectoryArchive.close
DirClose(c) == c

close(c, k, md, writing) ==
  IF k = "TarArchive" THEN TarClose(c, md)
  ELSE IF k = "ZipArchive" THEN ZipClose(c, md, writing)
  ELSE DirClose(c)

\* ------------------------------------------------------------ the machine
Here == Ctx(handle, fs, index, "ok")

\* ZipFile._writing: a per-member write handle is open
Writing == cls = "ZipArchive" /\ Len(streams) > 0

\* the container was created or truncated by this call
Truncated(c) ==
  cls # "DirectoryArchive" /\ mode = "w" /\ handle.state = "unset" /\ c.h.state = "open"

\* written, after a call that named member m: a returned write records its
\* payload, any other call that named m leaves the last write of m behind
Touched(c, m, returned, data) ==
  [q \in Paths |->
     IF q = m /\ returned THEN data
     ELSE IF Truncated(c) THEN NoWrite
     ELSE IF q = m /\ written[q] # NoWrite THEN Stale
     ELSE written[q]]

Untouched(c) == IF Truncated(c) THEN AllNoWrite ELSE written

\* the records stored for one member path
Stored(node, m) ==
  << node.tree[m], SelectSeq(node.entries, LAMBDA e : e.name.p = m) >>

\* written, after a call that named m and was no returned write of m
Named(c, m) ==
  IF Stored(c.fs, m) = Stored(fs, m) THEN Untouched(c) ELSE Touched(c, m, FALSE, "")

\* The state a call leaves behind. The records of the container and the
\* streams still to be committed stay within the room of the container.
Leave(c, r, w, s) ==
  /\ Len(c.fs.entries) + Len(s) <= MaxEntries
  /\ Len(s) <= MaxStreams
  /\ streams' = s
  /\ handle' = c.h
  /\ fs' = c.fs
  /\ index' = c.idx
  /\ res' = r
  /\ written' = w
  /\ life' = IF life = "closed" THEN "closed" ELSE "used"
  /\ prev' = NoPrev
  /\ UNCHANGED << target, cls, mode, opened >>

Init ==
  /\ target \in Targets
  /\ fs \in { Absent, EmptyDir, RawFile, Polyglot }
  /\ cls = "None"
  /\ mode = "r"
  /\ handle = Unset
  /\ index = NoIndex
  /\ streams = << >>
  /\ res = Ok("init")
  /\ written = AllNoWrite
  /\ prev = NoPrev
  /\ life = "fresh"
  /\ opened = Absent

\* a constructor that creates the container file of a write session at once
initEager(k, md, node) ==
  IF md # "w" THEN node
  ELSE IF k = "DirectoryArchive"
  THEN IF node.kind = "absent" THEN EmptyDir ELSE node
  ELSE IF node.kind = "dir" THEN node
  ELSE NewContainer(IF k = "TarArchive" THEN "tar" ELSE "zip")

\* the target after __init__ of class k: DirectoryArchive.__init__ makes the
\* directory of a write session, Archive.__init__ stores its arguments
init(k, md, node) ==
  IF k = "DirectoryArchive" /\ md = "w" /\ node.kind = "absent" THEN EmptyDir ELSE node

\* Archive(archive_fn, mode): __new__ selects the class, __init__ of the
\* directory backend creates the target of a write session
Dispatch(md) ==
  /\ cls = "None"
  /\ LET k == Select(target, fs, md)
         r == [Result("Archive", "ok") EXCEPT !.val = md]
     IN IF k = "None"
        THEN /\ res' = [r EXCEPT !.status = UnknownFormat]
             /\ UNCHANGED << fs, cls, mode, opened >>
        ELSE IF k = "DirectoryArchive" /\ md = "w" /\ fs.kind = "file"
        THEN /\ res' = [r EXCEPT !.status = "FileExistsError"]
             /\ UNCHANGED << fs, cls, mode, opened >>
        ELSE /\ res' = r
             /\ cls' = k
             /\ mode' = md
             /\ opened' = IF md = "r" THEN fs ELSE Absent
             /\ fs' = init(k, md, fs)
  /\ UNCHANGED << target, handle, index, streams, written, prev, life >>

\* a write stream is open on a file of the directory target; a second writer
\* of that file is concurrent access, which the package leaves to its caller
Busy(m) ==
  cls = "DirectoryArchive" /\ \E i \in 1..Len(streams) : streams[i].member = m

\* Archive.write_member(member_fn, data, mode=wm)
WriteMember(m, data, wm) ==
  /\ cls # "None"
  /\ cls # "DirectoryArchive" => wm = "w"
  /\ ~Busy(m)
  /\ LET c == write_member(Here, cls, mode, Writing, m, data, wm)
         r == Result("write_member", c.err)
     IN Leave(c, r, IF c.err = "ok" THEN Touched(c, m, TRUE, data) ELSE Named(c, m),
              streams)

\* _ArchivePath.open(mode, **kwargs)
OpenAt(m, om, args) ==
  /\ cls # "None"
  /\ Mode0(om) # "r" => ~Busy(m)
  /\ LET c == open_at(Here, cls, mode, Writing, m, om, args)
         r == [Result("open_at", c.err) EXCEPT !.how = Mode0(om), !.val = c.val,
                                             !.flag = c.strm]
     IN Leave(c, r, Named(c, m),
              IF c.strm THEN Append(streams, [member |-> m, buf |-> ""]) ELSE streams)

\* write(data) on an open per-member write stream
StreamWrite(i, data) ==
  /\ i \in 1..Len(streams)
  /\ streams[i].buf # data
  /\ streams' = [streams EXCEPT ![i].buf = data]
  /\ res' = Ok("write")
  /\ UNCHANGED << target, fs, cls, mode, handle, index, written, prev, life, opened >>

\* what closing the stream does: _TarIO.close commits through write_member,
\* the zip handle adds its record, the file of a directory gets its payload
StreamCommit(c, k, md, st) ==
  IF k = "TarArchive" THEN TarWriteMember(c, md, st.member, st.buf)
  ELSE IF k = "ZipArchive" THEN ZipAdd(c, FileRec(FileName(st.member), st.buf))
  ELSE [c EXCEPT !.fs.tree[st.member] = [type |-> "file", data |-> st.buf]]

Remove(seq, i) == SubSeq(seq, 1, i - 1) \o SubSeq(seq, i + 1, Len(seq))

\* close() of a per-member write stream; when the finalizer of an unreferenced
\* stream calls it (gc), the stream is gone whatever close() raised
StreamClose(i, gc) ==
  /\ i \in 1..Len(streams)
  /\ LET st == streams[i]
         c == StreamCommit(Here, cls, mode, st)
         r == Result("stream_close", c.err)
     IN Leave(c, r, IF c.err = "ok" THEN Touched(c, st.member, TRUE, st.buf)
                                     ELSE Named(c, st.member),
              IF c.err = "ok" \/ gc THEN Remove(streams, i) ELSE streams)

\* a second close() that commits once more, as an empty member
TarIOCloseAgainCommits(c, md, m) == TarWriteMember(c, md, m, "")

\* _TarIO.close() on a stream that is closed: self.seek(0) raises ValueError
\* on the closed BytesIO before write_member is reached
TarIOCloseAgain(c, md, m) == Fail(c, "ValueError")

\* close() called again on the binary write stream of member m that the call
\* before has closed
StreamReclose(m) ==
  /\ cls = "TarArchive"
  /\ res.op = "stream_close" /\ res.status = "ok"
  /\ written[m] \in Payloads
  /\ LET c == TarIOCloseAgain(Here, mode, m)
     IN Leave(c, Result("stream_reclose", c.err),
              IF c.err = "ok" THEN Touched(c, m, TRUE, "") ELSE Named(c, m), streams)

\* _ArchivePath.mkdir(exist_ok=...)
MkdirAt(m, exist_ok) ==
  /\ cls # "None"
  /\ LET c == mkdir_at(Here, cls, mode, m, exist_ok)
         r == Result("mkdir_at", c.err)
     IN Leave(c, r, Named(c, m), streams)

\* _ArchivePath.touch()
TouchAt(m) ==
  /\ cls # "None"
  /\ LET c == touch_at(Here, cls, mode, Writing, m)
         r == Result("touch_at", c.err)
     IN Leave(c, r, IF c.err = "ok" /\ cls # "DirectoryArchive"
                    THEN Touched(c, m, TRUE, "") ELSE Named(c, m),
              streams)

\* _ArchivePath.exists(), is_file(), is_dir(): the handle a query
\* materializes is its only effect, its answer is Answer
Query(q) ==
  /\ cls # "None"
  /\ LET c == Prepare(Here, cls, mode, q)
     IN Leave(c, Result("query", c.err), Untouched(c), streams)

\* Archive.members(), Archive.glob(pattern), Archive.iterdir_at(at): the
\* paths it yields are Listing
List(q) ==
  /\ cls # "None"
  /\ LET c == Ready(Here, cls, mode)
     IN Leave(c, Result("list", c.err), Untouched(c), streams)

\* the Archive looked at as a path: exists(), is_file(), is_dir(), name, suffix
RootView ==
  /\ cls # "None"
  /\ res' = [Result("root", "ok") EXCEPT
               !.flag = exists(Here) /\ is_dir(Here) /\ ~is_file(Here),
               !.how = name(Here), !.val = suffix(Here)]
  /\ UNCHANGED << target, fs, cls, mode, handle, index, streams, written, prev, life,
                  opened >>

\* a Virtual Path is made by joining a name to the path of its parent, its
\* parent, name, stem and suffix are read and it is compared with another
PathView(p, q) ==
  /\ cls # "None"
  /\ LET c == ArchivePath(Here, cls, mode, Join(Parent(p), << PathName(p) >>))
     IN /\ handle' = c.h
        /\ fs' = c.fs
        /\ index' = c.idx
        /\ res' = [Result("path", c.err) EXCEPT
                     !.how = PathStem(p), !.val = PathSuffix(p), !.flag = PathLt(p, q)]
  /\ UNCHANGED << target, cls, mode, streams, written, prev, life, opened >>

\* Archive.close()
Close ==
  /\ cls # "None"
  /\ LET c == close(Here, cls, mode, Writing)
     IN /\ handle' = c.h
        /\ fs' = c.fs
        /\ index' = c.idx
        /\ res' = Result("close", c.err)
        /\ life' = IF c.err = "ok" \/ life = "closed" THEN "closed" ELSE "used"
  /\ prev' = NoPrev
  /\ UNCHANGED << target, cls, mode, streams, written, opened >>

\* The Archive object goes out of use once it holds no open handle and no
\* stream; the next Archive of the target is a new object.
Drop ==
  /\ cls # "None"
  /\ handle.state # "open"
  /\ streams = << >>
  /\ prev' = [cls |-> cls, mode |-> mode, state |-> handle.state, life |-> life]
  /\ cls' = "None"
  /\ mode' = "r"
  /\ handle' = Unset
  /\ index' = NoIndex
  /\ life' = "fresh"
  /\ res' = Ok("del")
  /\ opened' = Absent
  /\ UNCHANGED << target, fs, streams, written >>

Next ==
  \/ \E md \in ArchiveModes : Dispatch(md)
  \/ \E m \in Paths, data \in Payloads, wm \in WriteModes : WriteMember(m, data, wm)
  \/ \E m \in Paths, oc \in OpenCalls : OpenAt(m, oc[1], oc[2])
  \/ \E i \in 1..MaxStreams, data \in Payloads : StreamWrite(i, data)
  \/ \E i \in 1..MaxStreams, gc \in BOOLEAN : StreamClose(i, gc)
  \/ \E m \in Paths : StreamReclose(m)
  \/ \E m \in Paths, exist_ok \in BOOLEAN : MkdirAt(m, exist_ok)
  \/ \E m \in Paths : TouchAt(m)
  \/ \E q \in { "exists_at", "is_file_at", "is_dir_at" } : Query(q)
  \/ \E q \in { "members", "glob", "iterdir_at" } : List(q)
  \/ RootView
  \/ \E p \in Paths, q \in Paths : PathView(p, q)
  \/ Close
  \/ Drop

Spec == Init /\ [][Next]_vars

\* ------------------------------------------------------------- properties
\* a call on an Archive that has materialized nothing yet
Fresh(node) == Ctx(Unset, node, NoIndex, "ok")

\* the container holds no record stored for member path m
NoRecord(node, m) == \A i \in 1..Len(node.entries) : node.entries[i].name.p # m

\* the members of a target: for every path, which kinds of record it has
MemberSet(node) ==
  [q \in Paths |->
     << node.tree[q].type,
        { node.entries[i].type : i \in { j \in 1..Len(node.entries) :
                                           node.entries[j].name.p = q } } >>]

\* a directory is all that is stored for member path m
OnlyDirRecord(node, m) ==
  /\ MemberSet(node)[m][1] \in { "none", "dir" }
  /\ MemberSet(node)[m][2] \subseteq { "dir" }
  /\ MemberSet(node)[m] # << "none", {} >>

\* the target is a finished container of the format of backend k
ValidContainer(node, k) ==
  /\ node.kind = "file"
  /\ node.final
  /\ node.fmt = (IF k = "TarArchive" THEN "tar" ELSE "zip")

\* the exceptions a handler of NoData catches besides the one tar.py raises:
\* Path.open on a directory raises IsADirectoryError, a subclass of IOError
IsNoData(err) == err \in { NoData, "IsADirectoryError" }

\* C1 -- Round trip: on every backend, a member whose last write returned
\* with payload p in a write-mode session that was closed reads back as
\* exactly p, in binary and in text mode, from an Archive of the same target
\* opened in read mode.
C1_RoundTrip ==
  (cls # "None" /\ mode = "r") =>
    \A m \in Paths : written[m] \in Payloads =>
      \A om \in { "r", "rb" } :
        LET c == open_at(Here, cls, mode, Writing, m, om, FALSE)
        IN c.err = "ok" /\ c.val = written[m]

\* a read-mode tar Archive has just read back the payload written before
C1_Witness ==
  /\ cls = "TarArchive" /\ mode = "r"
  /\ res.op = "open_at" /\ res.status = "ok" /\ res.val = "foo"
  /\ \E m \in Paths : written[m] = "foo"

\* C2 -- Write visibility: in a write-mode session whose handle is in use,
\* every member a write of which has returned (write_member, touch, or the
\* close of its write stream) is reported by members(), exists(), is_file()
\* and by glob() with every pattern that matches its path.
C2_WriteVisibility ==
  (cls # "None" /\ mode = "w" /\ (cls = "DirectoryArchive" \/ handle.state = "open")) =>
    \A m \in Paths : written[m] # NoWrite =>
      LET c == Ready(Here, cls, mode)
          z == Prepare(Here, cls, mode, "exists_at")
      IN /\ c.err = "ok" /\ z.err = "ok"
         /\ m \in members(c, cls)
         /\ \A pat \in Patterns : fnmatch2(m, pat) => m \in glob(c, cls, pat)
         /\ exists_at(z, cls, m)
         /\ is_file_at(z, cls, m)

\* the close of a write stream of a tar session has just committed a member
C2_Witness ==
  /\ cls = "TarArchive" /\ mode = "w" /\ handle.state = "open"
  /\ res.op = "stream_close" /\ res.status = "ok"
  /\ written[<< "d", "f" >>] = "foo"

\* C3, as stated -- while a write stream of a write-mode tar archive is open,
\* its member is reported neither by members() nor by exists() nor is_file().
C3_PendingHidden ==
  (cls = "TarArchive" /\ mode = "w") =>
    \A i \in 1..Len(streams) :
      LET m == streams[i].member
          c == Ready(Here, cls, mode)
      IN c.err = "ok" =>
           /\ m \notin members(c, cls)
           /\ ~exists_at(c, cls, m)
           /\ ~is_file_at(c, cls, m)

\* C3, amended -- while a write stream of a write-mode tar archive is open,
\* whatever was written to it, its member is reported neither by members()
\* nor by exists() nor is_file() unless the container holds a record of that
\* path, committed by another call.
C3_PendingUncommitted ==
  (cls = "TarArchive" /\ mode = "w") =>
    \A i \in 1..Len(streams) :
      LET m == streams[i].member
          c == Ready(Here, cls, mode)
      IN (c.err = "ok" /\ NoRecord(c.fs, m)) =>
           /\ m \notin members(c, cls)
           /\ ~exists_at(c, cls, m)
           /\ ~is_file_at(c, cls, m)

\* data sits in an open stream of a tar session that has listed its members,
\* next to a committed member, and the container has no record of the path
C3_Witness ==
  /\ cls = "TarArchive" /\ mode = "w" /\ handle.state = "open" /\ index.set
  /\ Len(fs.entries) > 0
  /\ \E i \in 1..Len(streams) :
       streams[i].buf = "foo" /\ NoRecord(fs, streams[i].member)

\* C4 -- Dispatch determinism: an Archive made for reading right after one
\* that was made for writing the same target, and on which nothing was
\* called, is of the same backend class.
C4_DispatchDeterminism ==
  (res.op = "Archive" /\ res.val = "r" /\ prev.cls # "None" /\ prev.mode = "w"
     /\ prev.life = "fresh") =>
    (res.status = "ok" /\ cls = prev.cls)

\* C5 -- Idempotent close: close() never fails, whatever the state of the
\* Archive, so neither does the second of two calls in a row.
C5_IdempotentClose == res.op = "close" => res.status = "ok"

\* C6 -- Transparent reopen: close() of a read-mode tar or zip Archive leaves
\* neither a cached handle nor a cached index; a handle the Archive holds
\* lists the records of the container and its index is built from them; and
\* at any time, before and after any number of close() calls, reading a
\* member gives what reading it on the first use of the Archive gave.
C6_TransparentReopen ==
  (cls \in { "TarArchive", "ZipArchive" } /\ mode = "r") =>
    /\ res.op = "close" => (res.status = "ok" /\ handle = Unset /\ index = NoIndex)
    /\ handle.state = "open" =>
         handle.list = (IF cls = "TarArchive" THEN TarLoad(fs.entries) ELSE fs.entries)
    /\ index.set => (handle.state = "open" /\ index.map = IndexOf(handle.list))
    /\ \A m \in Paths :
         LET now == open_at(Here, cls, mode, Writing, m, "rb", FALSE)
             first == open_at(Fresh(opened), cls, mode, FALSE, m, "rb", FALSE)
         IN now.err = first.err /\ now.val = first.val

\* a read-mode tar Archive, closed before, has a handle again and read "foo"
C6_Witness ==
  /\ cls = "TarArchive" /\ mode = "r" /\ life = "closed"
  /\ handle.state = "open" /\ index.set
  /\ res.op = "open_at" /\ res.status = "ok" /\ res.val = "foo"

\* C7 -- Close finalizes the container: once close() of a write-mode tar or
\* zip Archive has returned, the target is a finished container of that
\* format, whatever was called before, nothing at all included.
C7_CloseFinalizes ==
  (cls \in { "TarArchive", "ZipArchive" } /\ mode = "w"
     /\ res.op = "close" /\ res.status = "ok") =>
    ValidContainer(fs, cls)

\* C8 -- Read-only invariant: while the Archive is in read mode, the members
\* of its target are those it had when the Archive was made.
C8_ReadOnly ==
  (cls # "None" /\ mode = "r") => MemberSet(fs) = MemberSet(opened)

\* C9 -- Opening a member for write on a read-mode Archive raises the
\* read-only error in the open call, hands out no stream and leaves the
\* target alone, on every backend, in binary and text mode, with and without
\* encoding arguments.
C9_ReadOnlyViolation ==
  (cls # "None" /\ mode = "r") =>
    /\ \A m \in Paths, oc \in OpenCalls :
         Mode0(oc[1]) = "w" =>
           LET c == open_at(Here, cls, mode, Writing, m, oc[1], oc[2])
           IN c.err = ReadOnlyViolation /\ ~c.strm /\ c.fs = fs
    /\ (res.op = "open_at" /\ res.how = "w") =>
         (res.status = ReadOnlyViolation /\ ~res.flag /\ streams = << >>)

\* an open for write has just been refused by a read-mode zip Archive
C9_Witness ==
  /\ cls = "ZipArchive" /\ mode = "r" /\ handle.state = "open"
  /\ res.op = "open_at" /\ res.how = "w" /\ res.status = ReadOnlyViolation

\* C10 -- Opening a member of a read-mode Archive for read raises
\* MemberNotFound when members() does not list the path, NoData when a
\* directory is all that is stored for the path, and leaves the member index
\* as listing the archive made it.
C10_ReadErrors ==
  (cls # "None" /\ mode = "r") =>
    \A m \in Paths :
      LET c0 == Ready(Here, cls, mode)
          c == open_at(Here, cls, mode, Writing, m, "rb", FALSE)
      IN /\ (c0.err = "ok" /\ m \notin members(c0, cls)) => c.err = MemberNotFound
         /\ OnlyDirRecord(fs, m) => IsNoData(c.err)
         /\ c.idx = c0.idx /\ c.fs = fs

\* C11 -- Root invariant: in every state of an Archive of any backend, before
\* its first use, during the session and after close(), whatever is at the
\* target, the Archive as a path has empty name, stem and suffix, is its own
\* parent, exists, is a directory and is no file.
C11_RootInvariant ==
  cls # "None" =>
    /\ name(Here) = "" /\ stem(Here) = "" /\ suffix(Here) = ""
    /\ parent(Root) = Root
    /\ exists(Here) /\ is_dir(Here) /\ ~is_file(Here)
    /\ res.op = "root" => (res.flag /\ res.how = "" /\ res.val = "")

\* a zip Archive was looked at as a path after a write session that was
\* closed without ever creating the target
C11_Witness ==
  /\ cls = "ZipArchive" /\ mode = "w" /\ life = "closed"
  /\ fs.kind = "absent"
  /\ res.op = "root"

\* C12 -- Directory-synthesis equivalence: on every backend, in every state
\* whose members can be listed, for every Virtual Path d, the root included,
\* d.iterdir() and d.glob("*") yield the same set of paths.
C12_IterdirIsGlobStar ==
  cls # "None" =>
    LET c == Ready(Here, cls, mode)
    IN c.err = "ok" =>
         \A d \in VirtualPaths :
           iterdir_at(c, cls, d) = PathGlob(c, cls, d, << "*" >>)

\* C14 -- Read dispatch: an Archive made in read mode is of the first of
\* TarArchive, ZipArchive, DirectoryArchive whose is_readable holds of the
\* target; when none holds, the call raises UnknownFormat and there is no
\* Archive.
C14_ReadDispatch ==
  (res.op = "Archive" /\ res.val = "r") =>
    IF is_readable("TarArchive", fs)
    THEN res.status = "ok" /\ cls = "TarArchive"
    ELSE IF is_readable("ZipArchive", fs)
    THEN res.status = "ok" /\ cls = "ZipArchive"
    ELSE IF is_readable("DirectoryArchive", fs)
    THEN res.status = "ok" /\ cls = "DirectoryArchive"
    ELSE res.status = UnknownFormat /\ cls = "None"

\* a target that both the tar and the zip probe accept was opened for reading
C14_Witness ==
  /\ res.op = "Archive" /\ res.val = "r" /\ res.status = "ok"
  /\ is_readable("TarArchive", fs) /\ is_readable("ZipArchive", fs)
  /\ cls = "TarArchive"

\* C15 -- Write dispatch: an Archive made in write mode is a TarArchive when
\* the name of the target ends with a tar extension, else a ZipArchive when
\* it ends with a zip extension, else a DirectoryArchive, whatever is at the
\* target; only the constructor of the directory backend may then refuse a
\* target that is a file.
C15_WriteDispatch ==
  (res.op = "Archive" /\ res.val = "w") =>
    IF \E ext \in _extensions("TarArchive") : EndsWith(target, ext)
    THEN res.status = "ok" /\ cls = "TarArchive"
    ELSE IF \E ext \in _extensions("ZipArchive") : EndsWith(target, ext)
    THEN res.status = "ok" /\ cls = "ZipArchive"
    ELSE \/ res.status = "ok" /\ cls = "DirectoryArchive"
         \/ res.status = "FileExistsError" /\ cls = "None" /\ fs.kind = "file"

\* a target named archive.zip that is a directory was opened for writing
C15_Witness ==
  /\ res.op = "Archive" /\ res.val = "w" /\ res.status = "ok"
  /\ target.ext = ".zip" /\ fs.kind = "dir"
  /\ cls = "ZipArchive"

\* C16 -- mkdir and touch conflicts: in a write session of any backend, mkdir
\* on a path where a file member exists and touch on a path where a directory
\* exists raise FileExistsError and leave the member set unchanged, and mkdir
\* on an existing directory raises FileExistsError unless exist_ok is set.
C16_Conflicts ==
  (cls # "None" /\ mode = "w" /\ handle.state # "closed" /\ streams = << >>) =>
    LET c == Prepare(Here, cls, mode, "is_file_at")
    IN c.err = "ok" =>
         \A m \in Paths :
           /\ is_file_at(c, cls, m) =>
                \A exist_ok \in BOOLEAN :
                  LET c1 == mkdir_at(c, cls, mode, m, exist_ok)
                  IN c1.err = "FileExistsError" /\ members(c1, cls) = members(c, cls)
           /\ is_dir_at(c, cls, m) =>
                LET c2 == touch_at(c, cls, mode, FALSE, m)
                    c3 == mkdir_at(c, cls, mode, m, FALSE)
                IN /\ c2.err = "FileExistsError" /\ members(c2, cls) = members(c, cls)
                   /\ c3.err = "FileExistsError"

\* C17 -- Overwrite: on every backend, after write_member(m, p1) followed by
\* write_member(m, p2) in one write session, members() yields m exactly once,
\* and m reads back as p2 from an Archive of the closed target opened in read
\* mode.
C17_Overwrite ==
  (cls # "None" /\ mode = "w" /\ handle.state # "closed" /\ streams = << >>) =>
    \A m \in Paths, p1 \in Payloads, p2 \in Payloads, wm \in WriteModes :
      LET c1 == write_member(Here, cls, mode, FALSE, m, p1, wm)
          c2 == write_member(c1, cls, mode, FALSE, m, p2, wm)
          c3 == Ready(c2, cls, mode)
          c4 == close(c3, cls, mode, FALSE)
          k == Select(target, c4.fs, "r")
          rd == open_at(Fresh(c4.fs), k, "r", FALSE, m, "rb", FALSE)
      IN (c1.err = "ok" /\ c2.err = "ok") =>
           /\ c3.err = "ok" /\ MembersYield(c3, cls, m) = 1
           /\ c4.err = "ok" /\ k = cls
           /\ rd.err = "ok" /\ rd.val = p2

\* C18 -- Directory backend construction: making an Archive in read mode of a
\* target without archive extension that does not exist fails with
\* FileNotFoundError, and after a DirectoryArchive was made in write mode the
\* target is a directory.
C18_DirectoryConstruction ==
  res.op = "Archive" =>
    /\ (res.val = "r" /\ target.ext = "" /\ fs.kind = "absent") =>
         res.status = "FileNotFoundError"
    /\ (res.val = "w" /\ res.status = "ok" /\ cls = "DirectoryArchive") =>
         fs.kind = "dir"

\* C19 -- Tar commit exactly once: in a write-mode tar session, a close of a
\* write stream that returns adds exactly one record with the whole buffer
\* to the container and enters it in the member index, and takes the stream
\* away; a close that raises adds nothing; a repeated close raises and
\* changes neither container nor index; and a stream goes away only through
\* its close.
C19_CommitOnce ==
  [][ (cls = "TarArchive" /\ mode = "w") =>
        /\ (res'.op = "stream_close" /\ res'.status = "ok") =>
             \E i \in 1..Len(streams) :
               LET rec == FileRec(FileName(streams[i].member), streams[i].buf)
                   c1 == _tarfile(Here, mode)
                   c2 == _members(Here, mode)
               IN /\ streams' = Remove(streams, i)
                  /\ fs'.entries = Append(c1.fs.entries, rec)
                  /\ handle'.list = Append(c1.h.list, rec)
                  /\ index'.set
                  /\ index'.map = IndexPut(c2.idx.map, rec)
        /\ (res'.op = "stream_close" /\ res'.status # "ok") =>
             fs'.entries = fs.entries /\ index' = index
        /\ res'.op = "stream_reclose" =>
             res'.status # "ok" /\ fs' = fs /\ index' = index /\ streams' = streams
        /\ Len(streams') < Len(streams) => res'.op = "stream_close"
    ]_vars

\* a stream that took "foo" was closed and committed, and closed once more
C19_Witness ==
  /\ cls = "TarArchive" /\ mode = "w" /\ handle.state = "open"
  /\ res.op = "stream_reclose"
  /\ \E m \in Paths :
       /\ written[m] = "foo"
       /\ fs.entries = << FileRec(FileName(m), "foo") >>
       /\ index.set /\ index.map[FileName(m)] = FileRec(FileName(m), "foo")

\* the calls that may add a member to the Archive in context c, and what each
\* leaves behind: write_member, touch, mkdir, and open for write followed by
\* the close of the stream it returned
Adders(c, k, md, writing) ==
  { write_member(c, k, md, writing, m, data, "w") : m \in Paths, data \in Payloads }
    \cup { touch_at(c, k, md, writing, m) : m \in Paths }
    \cup { mkdir_at(c, k, md, m, FALSE) : m \in Paths }
    \cup { LET o == open_at(c, k, md, writing, x[1], x[2][1], x[2][2])
           IN IF o.strm THEN StreamCommit(o, k, md, [member |-> x[1], buf |-> x[3]])
              ELSE o :
           x \in Paths \X { oc \in OpenCalls : Mode0(oc[1]) = "w" } \X Payloads }

C21_SynthesizedIsDir ==
  cls \in { "TarArchive", "ZipArchive" } =>
    LET c == Prepare(Here, cls, mode, "is_dir_at")
    IN (c.err = "ok" /\ c.h.state = "open") =>
         \A q \in Paths :
           IF \E i \in 1..Len(c.h.list) :
                c.h.list[i].type = "dir" /\ c.h.list[i].name.p = q
           THEN is_dir_at(c, cls, q)
           ELSE is_dir_at(c, cls, q) <=> (\E mb \in members(c, cls) : Parent(mb) = q)

\* C22 -- Virtual Path purity: making a Virtual Path, joining, reading its
\* parent, name, stem or suffix and comparing it with another never opens the
\* handle of the Archive, never creates or changes the target, and leaves
\* the member index as it is, whatever the state of the Archive.
C22_PathPurity ==
  [][ res'.op = "path" =>
        /\ res'.status = "ok"
        /\ handle' = handle /\ fs' = fs /\ index' = index
        /\ life' = life /\ streams' = streams
    ]_vars

\* a Virtual Path was made and read on a zip Archive for writing on which
\* nothing else was called: the handle is unset and there is no target
C22_Witness ==
  /\ cls = "ZipArchive" /\ mode = "w" /\ life = "fresh"
  /\ res.op = "path" /\ res.how = "f" /\ ~res.flag
  /\ handle.state = "unset" /\ ~index.set /\ fs.kind = "absent"

\* C23 -- Creation timing at write dispatch: making a DirectoryArchive for
\* writing leaves a directory at the target, created when there was none;
\* making a zip or tar Archive for writing leaves the target as it was, and
\* the target stays as it was for as long as the handle is unset; the call
\* that opens the handle leaves a new, empty container file.
C23_CreationTiming ==
  [][ /\ (res'.op = "Archive" /\ res'.val = "w" /\ res'.status = "ok") =>
           IF cls' = "DirectoryArchive"
           THEN fs' = (IF fs.kind = "absent" THEN EmptyDir ELSE fs) /\ fs'.kind = "dir"
           ELSE fs' = fs /\ handle'.state = "unset"
      /\ (cls \in { "TarArchive", "ZipArchive" } /\ mode = "w" /\ cls' = cls
            /\ handle.state = "unset") =>
           IF handle'.state = "unset" THEN fs' = fs
           ELSE /\ fs'.kind = "file" /\ ~fs'.final
                /\ fs'.fmt = (IF cls = "TarArchive" THEN "tar" ELSE "zip")
                /\ fs'.entries = handle'.list
    ]_vars

\* a tar Archive was made for writing over a file, which is still as it was
C23_Witness ==
  /\ res.op = "Archive" /\ res.val = "w" /\ res.status = "ok"
  /\ cls = "TarArchive" /\ handle.state = "unset"
  /\ fs = RawFile

\* C24 -- Predicate consistency: on every backend and for every member path
\* p, is_file(p) and is_dir(p) are never both true, and is_file(p) or
\* is_dir(p) implies exists(p).
C24_PredicateConsistency ==
  cls # "None" =>
    LET c == Prepare(Here, cls, mode, "exists_at")
    IN c.err = "ok" =>
         \A p \in Paths :
           /\ ~(is_file_at(c, cls, p) /\ is_dir_at(c, cls, p))
           /\ (is_file_at(c, cls, p) \/ is_dir_at(c, cls, p)) => exists_at(c, cls, p)

\* C25 -- mkdir visibility: on every backend, after mkdir(d) has returned in
\* a write session, is_dir(d) and exists(d) are true in that session, and
\* they are true again on an Archive of the closed target opened in read
\* mode.
C25_MkdirVisibility ==
  (cls # "None" /\ mode = "w" /\ handle.state # "closed" /\ streams = << >>) =>
    \A d \in Paths, exist_ok \in BOOLEAN :
      LET c1 == mkdir_at(Here, cls, mode, d, exist_ok)
          c2 == Prepare(c1, cls, mode, "exists_at")
          c3 == close(c2, cls, mode, FALSE)
          k == Select(target, c3.fs, "r")
          rd == Prepare(Fresh(c3.fs), k, "r", "exists_at")
      IN c1.err = "ok" =>
           /\ c2.err = "ok" /\ exists_at(c2, cls, d) /\ is_dir_at(c2, cls, d)
           /\ c3.err = "ok" /\ k = cls
           /\ rd.err = "ok" /\ exists_at(rd, k, d) /\ is_dir_at(rd, k, d)

\* C26 -- Failed open leaves no trace: on a write-mode zip or tar Archive, an
\* open_at that raises because of an unrecognized mode or because encoding
\* arguments came with a binary mode leaves the records of the handle and
\* the member index as a query would have found them.
C26_FailedOpenNoTrace ==
  (cls \in { "TarArchive", "ZipArchive" } /\ mode = "w") =>
    \A m \in Paths, oc \in OpenCalls :
      (Mode0(oc[1]) = "x" \/ (IsBinary(oc[1]) /\ oc[2])) =>
        LET c == open_at(Here, cls, mode, Writing, m, oc[1], oc[2])
            b == IF c.h.state = "unset" THEN Here ELSE Ready(Here, cls, mode)
        IN (c.err # "ok" /\ b.err = "ok") =>
             /\ c.h.list = b.h.list
             /\ c.fs.entries = b.fs.entries
             /\ c.idx.set => c.idx.map = b.idx.map

====
